---- MODULE Spec2Model ----
(***************************************************************************)
(* Wearable integration and synchronisation subsystem of BioDrive+.        *)
(*                                                                         *)
(* The model follows src/routes.ts (the HTTP handlers), src/storage.ts     *)
(* (DatabaseStorage, the storage object the handlers use) and              *)
(* src/unnamed/part_000 (the passport strategy of the tracker).            *)
(*                                                                         *)
(* Every handler is an async function: it runs to its next `await`, and    *)
(* other requests run while it waits.  A request is therefore a process    *)
(* with a program counter, and one action of the model is the stretch of   *)
(* a handler between two awaits, together with the completion of the       *)
(* awaited call (a storage operation, or a call to the provider).  A       *)
(* storage operation either takes effect atomically or throws.             *)
(*                                                                         *)
(* Time is counted in seconds: the code's millisecond clock is this clock  *)
(* times 1000, so `Date.now() + expires_in * 1000` is `now + expires_in`.  *)
(***************************************************************************)
EXTENDS Integers, Sequences, FiniteSets, TLC

VARIABLES
    tokens,     \* table wearable_tokens: the rows, in insertion order
    records,    \* table wearable_data: the rows, in insertion order (id = index)
    now,        \* the server clock, in seconds
    req,        \* the requests being served: slot -> local state of its handler
    accepted    \* how many requests have been accepted so far

vars == <<tokens, records, now, req, accepted>>

----------------------------------------------------------------------------
(* Bounds of the model *)

MaxRequests == 2     \* requests accepted in one behaviour
MaxTime == 1         \* the clock stops here

\* Two requests are served concurrently.
Slots == {1, 2}

----------------------------------------------------------------------------
(* Values *)

Null == "null"       \* a null / undefined string column or field
NullTime == -1       \* a null timestamp column
Absent == -1         \* an absent (null / undefined) numeric field
NoText == <<>>       \* an absent structured text field

Providers == {"whoop", "apple_health"}

\* the user the tracker's passport strategy stores tokens for
StrategyUserId == 1

\* Path and query parameters arrive as strings.
ParamStrings == {"1", "0", "abc"}

\* parseInt: the number a decimal string denotes, NaN for any other string.
NaN == [nan |-> TRUE, val |-> 0]

ParseInt(s) ==
    IF \E n \in 0..9 : ToString(n) = s
    THEN [nan |-> FALSE, val |-> CHOOSE n \in 0..9 : ToString(n) = s]
    ELSE NaN

\* The test without `!userId`.
InvalidUserId_NaNOnly(p) == p.nan

\* The test with its sense reversed.
InvalidUserId_Reversed(p) == ~(p.nan \/ p.val = 0)

\* `!userId || isNaN(userId)`
InvalidUserId(p) == p.nan \/ p.val = 0

----------------------------------------------------------------------------
(* Storage: DatabaseStorage over the tables wearable_tokens and wearable_data *)

\* The rows a query for (userId, provider) selects.
KeyMatches(row, userId, provider) ==
    row.userId = userId /\ row.provider = provider

\* `const [token] = await db.select()...; return token || undefined`:
\* the first selected row, as a sequence of at most one row.
getWearableToken(T, userId, provider) ==
    LET rows == SelectSeq(T, LAMBDA row : KeyMatches(row, userId, provider))
    IN  IF rows = <<>> THEN <<>> ELSE <<Head(rows)>>

\* A unique key that takes in the external user id.
DuplicateCredential_ByExternalId(T, row) ==
    \E i \in 1..Len(T) : /\ KeyMatches(T[i], row.userId, row.provider)
                         /\ T[i].externalUserId = row.externalUserId

\* A table without the unique key on (user_id, provider).
DuplicateCredential_NoUniqueKey(T, row) == FALSE

\* The key (user_id, provider) of wearable_tokens is unique: an insert of a
\* second row for a key is refused (DuplicateCredential).
DuplicateCredential(T, row) ==
    \E i \in 1..Len(T) : KeyMatches(T[i], row.userId, row.provider)

\* `db.insert(wearableTokens).values(insertToken)`; the row's updatedAt is the
\* time of the insert.
createWearableToken(T, insertToken, at) ==
    Append(T, [userId         |-> insertToken.userId,
               provider       |-> insertToken.provider,
               accessToken    |-> insertToken.accessToken,
               refreshToken   |-> insertToken.refreshToken,
               expiresAt      |-> insertToken.expiresAt,
               externalUserId |-> insertToken.externalUserId,
               updatedAt      |-> at])

\* `.set({ ...updates, updatedAt: new Date() })`: the fields named in updates
\* are overwritten, updatedAt is set to the time of the call, every other
\* field of the row is kept.  A field given as undefined is not written.
TextFields == {"accessToken", "refreshToken", "externalUserId"}

Written(updates, f) ==
    f \in DOMAIN updates /\ ~(f \in TextFields /\ updates[f] = Null)

ApplyUpdates(row, updates, at) ==
    [f \in DOMAIN row |->
        IF f = "updatedAt" THEN at
        ELSE IF Written(updates, f) THEN updates[f]
        ELSE row[f]]

\* An update that inserts the row when the key has none.
updateWearableToken_Upsert(T, userId, provider, updates, at) ==
    IF \E i \in 1..Len(T) : KeyMatches(T[i], userId, provider)
    THEN [i \in 1..Len(T) |->
            IF KeyMatches(T[i], userId, provider)
            THEN ApplyUpdates(T[i], updates, at)
            ELSE T[i]]
    ELSE Append(T, ApplyUpdates([userId |-> userId, provider |-> provider,
                                 accessToken |-> Null, refreshToken |-> Null,
                                 expiresAt |-> NullTime, externalUserId |-> Null,
                                 updatedAt |-> at], updates, at))

\* `db.update(wearableTokens).set(...).where(key)`: every row of the key is
\* updated; with no such row nothing changes and nothing is thrown.
updateWearableToken(T, userId, provider, updates, at) ==
    [i \in 1..Len(T) |->
        IF KeyMatches(T[i], userId, provider)
        THEN ApplyUpdates(T[i], updates, at)
        ELSE T[i]]

\* A delete that forgets the provider in its condition.
deleteWearableToken_AnyProvider(T, userId, provider) ==
    SelectSeq(T, LAMBDA row : row.userId # userId)

\* A delete that removes nothing.
deleteWearableToken_KeepsAll(T, userId, provider) == T

\* `db.delete(wearableTokens).where(key)`
deleteWearableToken(T, userId, provider) ==
    SelectSeq(T, LAMBDA row : ~KeyMatches(row, userId, provider))

\* An insert that overwrites the latest row instead of adding one.
createWearableData_Overwrite(R, insertData) ==
    LET n == IF R = <<>> THEN 1 ELSE Len(R) IN
    [i \in 1..n |-> IF i = n THEN insertData @@ [id |-> n] ELSE R[i]]

\* `db.insert(wearableData).values(insertData)`: a new row with the next id.
createWearableData(R, insertData) ==
    Append(R, [id            |-> Len(R) + 1,
               userId        |-> insertData.userId,
               deviceType    |-> insertData.deviceType,
               sleepScore    |-> insertData.sleepScore,
               sleepDuration |-> insertData.sleepDuration,
               strainLevel   |-> insertData.strainLevel,
               hrv           |-> insertData.hrv,
               heartRate     |-> insertData.heartRate])

----------------------------------------------------------------------------
(* Provider adapters and data transformer (services/wearableIntegration) *)

\* What the tracker's three fetches (recovery, sleep, cycle) can return.
WhoopPayloads ==
    { [recovery |-> [hrv |-> 55, heartRate |-> 52],
       sleep    |-> [score |-> 85, duration |-> <<7, 42>>],
       cycle    |-> <<123>>],
      [recovery |-> [hrv |-> Absent, heartRate |-> Absent],
       sleep    |-> [score |-> 0, duration |-> NoText],
       cycle    |-> <<>>] }

\* transformWHOOPData: fields are copied when present and absent otherwise,
\* strain is that of the most recent cycle, the device tag is the tracker's.
\* Strain is a decimal number, held in tenths.
transformWHOOPData(recoveryData, sleepData, cycleData) ==
    [deviceType    |-> "whoop",
     sleepScore    |-> sleepData.score,
     sleepDuration |-> sleepData.duration,
     strainLevel   |-> IF cycleData = <<>> THEN Absent ELSE Head(cycleData),
     hrv           |-> recoveryData.hrv,
     heartRate     |-> recoveryData.heartRate]

\* The relative expiries (seconds) the tracker's token endpoint grants.
ExpiresIn == {0, 1}

\* What the tracker's token endpoint grants on a refresh.
RefreshGrants ==
    { [access_token |-> "at2", refresh_token |-> "rt2", expires_in |-> e] :
        e \in ExpiresIn }

\* What the tracker's token endpoint grants on an authorization code.
CodeGrants ==
    { [access_token |-> "at1", refresh_token |-> "rt1", expires_in |-> e] :
        e \in ExpiresIn }
    \cup { [access_token |-> "at1", refresh_token |-> Null, expires_in |-> 0] }

----------------------------------------------------------------------------
(* JavaScript conversions the handlers apply *)

\* `x || null` on a number: 0, null and undefined all become null.
NumberOrNull(x) == IF x = Absent \/ x = 0 THEN Absent ELSE x

\* Number.prototype.toString of a decimal held in tenths: the text, as
\* <<tenths, digits after the point>> ("12.3" is <<123, 1>>, "12" is <<120, 0>>).
NumberToString(t) == IF t % 10 = 0 THEN <<t, 0>> ELSE <<t, 1>>

\* `x?.toString() || null`: absent stays absent; every number has a
\* non-empty text, "0" included.
StringOrNull(t) == IF t = Absent THEN NoText ELSE NumberToString(t)

\* Number.prototype.toFixed(1) of a decimal held in thousandths.
ToFixed1(th) == <<(th + 50) \div 100, 1>>

\* Math.floor(Math.random() * n), the random number held in thousandths.
FloorRandom(r, n) == (r * n) \div 1000

\* The values of Math.random() a behaviour draws, in thousandths.
RandomSamples == {999}

\* One draw per call of Math.random() in a simulated record.
RandomDraws ==
    { [sleepScore |-> k, hours |-> k, minutes |-> k, strain |-> k,
       hrv |-> k, heartRate |-> k] : k \in RandomSamples }

----------------------------------------------------------------------------
(* Requests *)

\* The local state of a handler.
\*   kind, pc   which handler, and the await it is at
\*   userId     the parsed user id
\*   tok        the Credential the handler loaded, as getWearableToken returns it
\*   upd, at    the arguments of the Credential write it has issued
\*   data       the record it is about to persist
\*   results    sync's list of Sync Outcomes
\*   status     the HTTP status of the response, 0 until the response is sent
\*   since      the time a sync arrived (history, for the properties)
\*   log        the calls made and faults met so far (history, for the properties)
Idle ==
    [kind |-> "idle", pc |-> "idle", userId |-> 0, arg |-> Null, tok |-> <<>>,
     upd |-> <<>>, at |-> NullTime, data |-> <<>>, results |-> <<>>,
     status |-> 0, since |-> NullTime, log |-> <<>>]

Event(ev, arg) == [ev |-> ev, arg |-> arg]

\* A handler that has sent its response.
Respond(q, status) == [q EXCEPT !.pc = "done", !.status = status]

Logged(q, ev, arg) == [q EXCEPT !.log = Append(@, Event(ev, arg))]

\* A request is accepted into the first free slot.
CanAccept(r) ==
    /\ req[r].pc = "idle"
    /\ \A r2 \in Slots : r2 < r => req[r2].pc # "idle"
    /\ accepted < MaxRequests

Accept(r, q) ==
    /\ req' = [req EXCEPT ![r] = q]
    /\ accepted' = accepted + 1

Step(r, q) == req' = [req EXCEPT ![r] = q]

----------------------------------------------------------------------------
(* Routing: registerRoutes registers the routes in this order, and a request
   is handled by the first registered route whose method and path match. *)

PathParams == {":userId", ":provider"}

Routes ==
    << [method |-> "GET",    path |-> <<"api", "auth", "whoop", ":userId">>,   handler |-> "whoopAuthorize"],
       [method |-> "GET",    path |-> <<"api", "auth", "whoop", "demo">>,      handler |-> "whoopDemo"],
       [method |-> "POST",   path |-> <<"api", "webhook">>,                    handler |-> "whoopWebhook"],
       [method |-> "GET",    path |-> <<"api", "auth", "whoop", "callback">>,  handler |-> "whoopCallback"],
       [method |-> "GET",    path |-> <<"api", "auth", "apple", ":userId">>,   handler |-> "appleAuthorize"],
       [method |-> "GET",    path |-> <<"api", "auth", "apple", "mock">>,      handler |-> "appleMock"],
       [method |-> "POST",   path |-> <<"api", "auth", "apple", "callback">>,  handler |-> "appleCallback"],
       [method |-> "POST",   path |-> <<"api", "terra", "webhook">>,           handler |-> "terraWebhook"],
       [method |-> "DELETE", path |-> <<"api", "auth", ":provider", ":userId">>, handler |-> "disconnect"],
       [method |-> "POST",   path |-> <<"api", "sync", ":userId">>,            handler |-> "sync"],
       [method |-> "GET",    path |-> <<"api", "wearable-status", ":userId">>, handler |-> "wearableStatus"] >>

RouteMatches(route, method, path) ==
    /\ route.method = method
    /\ Len(route.path) = Len(path)
    /\ \A i \in 1..Len(path) : route.path[i] \in PathParams \/ route.path[i] = path[i]

\* The handler a request is dispatched to ("none": no route matches).
Dispatch(method, path) ==
    LET hits == SelectSeq(Routes, LAMBDA route : RouteMatches(route, method, path))
    IN  IF hits = <<>> THEN "none" ELSE Head(hits).handler

----------------------------------------------------------------------------
(* POST /api/sync/:userId *)

Success(provider, data) == [provider |-> provider, status |-> "success", data |-> data]
Failure(provider, error) == [provider |-> provider, status |-> "error", error |-> error]

\* The test that takes every attempt on the real API for a failure.
NoWhoopSuccess_Always(results) == TRUE

\* The test without the optional chaining's case of no outcome found.
NoWhoopSuccess_FoundOnly(results) ==
    LET found == SelectSeq(results, LAMBDA o : o.provider = "whoop")
    IN  found # <<>> /\ Head(found).status # "success"

\* `results.find(r => r.provider === 'whoop')?.status !== 'success'`
NoWhoopSuccess(results) ==
    LET found == SelectSeq(results, LAMBDA o : o.provider = "whoop")
    IN  found = <<>> \/ Head(found).status # "success"

\* The comparison the wrong way round.
NeedsRefresh_Reversed(token, time) ==
    token.expiresAt # NullTime /\ time < token.expiresAt

\* `whoopToken.expiresAt && new Date() > whoopToken.expiresAt`
NeedsRefresh(token, time) ==
    token.expiresAt # NullTime /\ time > token.expiresAt

\* The lifetime taken for the instant of expiry.
NewExpiresAt_LifetimeOnly(time, expires_in) == expires_in

\* `new Date(Date.now() + (refreshedTokens.expires_in * 1000))`
NewExpiresAt(time, expires_in) == time + expires_in

\* The simulated tracker record of the fallback.
demoData(rnd, time) ==
    [deviceType    |-> "whoop",
     sleepScore    |-> FloorRandom(rnd.sleepScore, 40) + 60,
     sleepDuration |-> <<FloorRandom(rnd.hours, 2) + 7, FloorRandom(rnd.minutes, 60)>>,
     strainLevel   |-> ToFixed1(rnd.strain * 15 + 5000),
     hrv           |-> FloorRandom(rnd.hrv, 50) + 25,
     heartRate     |-> FloorRandom(rnd.heartRate, 40) + 60,
     recordedAt    |-> time]

\* The simulated aggregator record of sync; its strain is a whole number.
mockData(rnd, time) ==
    [deviceType    |-> "apple_watch",
     sleepScore    |-> FloorRandom(rnd.sleepScore, 40) + 60,
     sleepDuration |-> <<FloorRandom(rnd.hours, 2) + 7, FloorRandom(rnd.minutes, 60)>>,
     strainLevel   |-> (FloorRandom(rnd.strain, 15) + 5) * 10,
     hrv           |-> FloorRandom(rnd.hrv, 50) + 25,
     heartRate     |-> FloorRandom(rnd.heartRate, 40) + 60,
     recordedAt    |-> time]

\* The row sync persists for a transformed tracker payload.
RealRow(userId, t) ==
    [userId        |-> userId,
     deviceType    |-> t.deviceType,
     sleepScore    |-> NumberOrNull(t.sleepScore),
     sleepDuration |-> t.sleepDuration,
     strainLevel   |-> StringOrNull(t.strainLevel),
     hrv           |-> NumberOrNull(t.hrv),
     heartRate     |-> NumberOrNull(t.heartRate)]

\* The row sync persists for a simulated tracker record.
DemoRow(userId, d) ==
    [userId        |-> userId,
     deviceType    |-> d.deviceType,
     sleepScore    |-> d.sleepScore,
     sleepDuration |-> d.sleepDuration,
     strainLevel   |-> d.strainLevel,
     hrv           |-> d.hrv,
     heartRate     |-> d.heartRate]

\* The row sync persists for a simulated aggregator record.
MockRow(userId, d) ==
    [userId        |-> userId,
     deviceType    |-> d.deviceType,
     sleepScore    |-> d.sleepScore,
     sleepDuration |-> d.sleepDuration,
     strainLevel   |-> NumberToString(d.strainLevel),
     hrv           |-> d.hrv,
     heartRate     |-> d.heartRate]

\* After the attempt on the real API (line 593): without a success outcome
\* for the tracker the simulated record is drawn and goes to be persisted.
AfterRealAttempt(q, rnd, time) ==
    IF NoWhoopSuccess(q.results)
    THEN [q EXCEPT !.data = demoData(rnd, time), !.pc = "persistDemo"]
    ELSE [q EXCEPT !.data = <<>>, !.pc = "appleGet"]

\* The expiry policy: a Credential is stale iff its expiresAt is set and is
\* strictly before the current time.
Stale(token, time) == token.expiresAt # NullTime /\ token.expiresAt < time

\* The user ids sync is asked for.
SyncUserIds == ParamStrings \cup {"2"}

\* A string in a condition: null, undefined and "" are false.
Truthy(x) == x # Null /\ x # ""

\* The request arrives: the user id is parsed and checked, the tracker's
\* Credential is asked for.
StartSync(r) ==
    /\ CanAccept(r)
    /\ \E s \in SyncUserIds :
        /\ Dispatch("POST", <<"api", "sync", s>>) = "sync"
        /\ LET p == ParseInt(s)
               q == [Idle EXCEPT !.kind = "sync", !.arg = s, !.userId = p.val,
                                 !.since = now]
           IN  IF InvalidUserId(p)
               THEN Accept(r, Respond(q, 400))
               ELSE Accept(r, [q EXCEPT !.pc = "whoopGet"])
    /\ UNCHANGED <<tokens, records, now>>

\* The tracker's Credential is loaded; a stale one goes to refresh.
SyncWhoopGet(r) ==
    LET q == req[r] IN
    /\ q.kind = "sync" /\ q.pc = "whoopGet"
    /\ \/ LET tok == getWearableToken(tokens, q.userId, "whoop") IN
            IF tok = <<>>
            THEN Step(r, [Logged(q, "absent", "whoop") EXCEPT !.pc = "appleGet"])
            ELSE Step(r, [Logged(q, IF Stale(tok[1], now) THEN "loadedStale" ELSE "loaded",
                                    "whoop") EXCEPT
                            !.tok = tok,
                            !.pc = IF NeedsRefresh(tok[1], now) THEN "refresh" ELSE "fetch"])
       \/ Step(r, Respond(Logged(q, "fault", "getWearableToken"), 500))
    /\ UNCHANGED <<tokens, records, now, accepted>>

\* The rejection taken for a failed fetch: the handler goes on to fetch.
SyncRefresh_RejectionFetches(r) ==
    LET q  == req[r]
        rt == q.tok[1].refreshToken
    IN
    /\ q.kind = "sync" /\ q.pc = "refresh"
    /\ \/ /\ rt # Null
          /\ \E g \in RefreshGrants :
                Step(r, [Logged(q, "refreshed", rt) EXCEPT
                            !.upd = [accessToken  |-> g.access_token,
                                     refreshToken |-> g.refresh_token,
                                     expiresAt    |-> NewExpiresAt(now, g.expires_in)],
                            !.at = now,
                            !.pc = "refreshUpdate"])
       \/ Step(r, [Logged(q, "refreshRejected", rt) EXCEPT !.pc = "fetch"])
    /\ UNCHANGED <<tokens, records, now, accepted>>

\* Refresh under a lock per user: no refresh is called while another sync
\* of the user has a refresh in hand that it has yet to persist.
SyncRefresh_Serialised(r) ==
    LET q  == req[r]
        rt == q.tok[1].refreshToken
    IN
    /\ q.kind = "sync" /\ q.pc = "refresh"
    /\ \A s \in Slots \ {r} :
          ~(req[s].kind = "sync" /\ req[s].userId = q.userId
                                 /\ req[s].pc = "refreshUpdate")
    /\ \/ /\ rt # Null
          /\ \E g \in RefreshGrants :
                Step(r, [Logged(q, "refreshed", rt) EXCEPT
                            !.upd = [accessToken  |-> g.access_token,
                                     refreshToken |-> g.refresh_token,
                                     expiresAt    |-> NewExpiresAt(now, g.expires_in)],
                            !.at = now,
                            !.pc = "refreshUpdate"])
       \/ Step(r, [Logged(q, "refreshRejected", rt) EXCEPT
                      !.results = Append(@, Failure("whoop", "RefreshRejected")),
                      !.pc = "appleGet"])
    /\ UNCHANGED <<tokens, records, now, accepted>>

\* WHOOPIntegration.refreshAccessToken answers: a grant, or a rejection
\* (always a rejection when there is no refresh token to present).
SyncRefresh(r) ==
    LET q  == req[r]
        rt == q.tok[1].refreshToken
    IN
    /\ q.kind = "sync" /\ q.pc = "refresh"
    /\ \/ /\ rt # Null
          /\ \E g \in RefreshGrants :
                Step(r, [Logged(q, "refreshed", rt) EXCEPT
                            !.upd = [accessToken  |-> g.access_token,
                                     refreshToken |-> g.refresh_token,
                                     expiresAt    |-> NewExpiresAt(now, g.expires_in)],
                            !.at = now,
                            !.pc = "refreshUpdate"])
       \/ Step(r, [Logged(q, "refreshRejected", rt) EXCEPT
                      !.results = Append(@, Failure("whoop", "RefreshRejected")),
                      !.pc = "appleGet"])
    /\ UNCHANGED <<tokens, records, now, accepted>>

\* The refreshed fields are written to the Credential.
SyncRefreshUpdate(r) ==
    LET q == req[r] IN
    /\ q.kind = "sync" /\ q.pc = "refreshUpdate"
    /\ \/ /\ tokens' = updateWearableToken(tokens, q.userId, "whoop", q.upd, q.at)
          /\ Step(r, [Logged(q, "updated", "refresh") EXCEPT
                        !.tok = <<[q.tok[1] EXCEPT !.accessToken = q.upd.accessToken]>>,
                        !.upd = <<>>, !.at = NullTime,
                        !.pc = "fetch"])
       \/ /\ UNCHANGED tokens
          /\ Step(r, [Logged(q, "fault", "updateWearableToken") EXCEPT
                        !.results = Append(@, Failure("whoop", "StorageFailure")),
                        !.upd = <<>>, !.at = NullTime,
                        !.pc = "appleGet"])
    /\ UNCHANGED <<records, now, accepted>>

\* The three fetches answer and the payload is transformed, or one of them
\* throws and the simulated record is drawn.
SyncFetch(r) ==
    LET q == req[r] IN
    /\ q.kind = "sync" /\ q.pc = "fetch"
    /\ \/ \E p \in WhoopPayloads :
            Step(r, [Logged(q, "fetched", q.tok[1].accessToken) EXCEPT
                        !.data = transformWHOOPData(p.recovery, p.sleep, p.cycle),
                        !.pc = "persistReal"])
       \/ \E rnd \in RandomDraws :
            Step(r, AfterRealAttempt(Logged(q, "fetchFailed", q.tok[1].accessToken), rnd, now))
    /\ UNCHANGED <<tokens, records, now, accepted>>

\* The transformed record is persisted and reported; if persisting throws,
\* the handler falls through to the simulated record.
SyncPersistReal(r) ==
    LET q == req[r] IN
    /\ q.kind = "sync" /\ q.pc = "persistReal"
    /\ \E rnd \in RandomDraws :
        \/ /\ records' = createWearableData(records, RealRow(q.userId, q.data))
           /\ Step(r, AfterRealAttempt(
                         [Logged(q, "persisted", "real") EXCEPT
                            !.results = Append(@, Success("whoop", q.data))],
                         rnd, now))
        \/ /\ UNCHANGED records
           /\ Step(r, AfterRealAttempt(Logged(q, "fault", "createWearableData"), rnd, now))
    /\ UNCHANGED <<tokens, now, accepted>>

\* The simulated record is persisted.
SyncPersistDemo(r) ==
    LET q == req[r] IN
    /\ q.kind = "sync" /\ q.pc = "persistDemo"
    /\ \/ /\ records' = createWearableData(records, DemoRow(q.userId, q.data))
          /\ Step(r, [Logged(q, "persisted", "simulated") EXCEPT
                        !.upd = [updatedAt |-> now], !.at = now,
                        !.pc = "demoUpdate"])
       \/ /\ UNCHANGED records
          /\ Step(r, [Logged(q, "fault", "createWearableData") EXCEPT
                        !.results = Append(@, Failure("whoop", "StorageFailure")),
                        !.data = <<>>,
                        !.pc = "appleGet"])
    /\ UNCHANGED <<tokens, now, accepted>>

\* The Credential's timestamp is updated and the simulated record reported.
SyncDemoUpdate(r) ==
    LET q == req[r] IN
    /\ q.kind = "sync" /\ q.pc = "demoUpdate"
    /\ \/ /\ tokens' = updateWearableToken(tokens, q.userId, "whoop", q.upd, q.at)
          /\ Step(r, [Logged(q, "updated", "timestamp") EXCEPT
                        !.results = Append(@, Success("whoop", q.data)),
                        !.upd = <<>>, !.at = NullTime, !.data = <<>>,
                        !.pc = "appleGet"])
       \/ /\ UNCHANGED tokens
          /\ Step(r, [Logged(q, "fault", "updateWearableToken") EXCEPT
                        !.results = Append(@, Failure("whoop", "StorageFailure")),
                        !.upd = <<>>, !.at = NullTime, !.data = <<>>,
                        !.pc = "appleGet"])
    /\ UNCHANGED <<records, now, accepted>>

\* The aggregator's Credential is loaded; one with an external user id gets
\* a simulated record, any other ends the request.
SyncAppleGet(r) ==
    LET q == req[r] IN
    /\ q.kind = "sync" /\ q.pc = "appleGet"
    /\ \/ LET tok == getWearableToken(tokens, q.userId, "apple_health")
              q1  == Logged(q, IF tok = <<>> THEN "absent" ELSE "loaded", "apple_health")
          IN  IF tok # <<>> /\ Truthy(tok[1].externalUserId)
              THEN \E rnd \in RandomDraws :
                      Step(r, [q1 EXCEPT !.data = mockData(rnd, now), !.pc = "persistApple"])
              ELSE Step(r, Respond(q1, 200))
       \/ Step(r, Respond(Logged(q, "fault", "getWearableToken"), 500))
    /\ UNCHANGED <<tokens, records, now, accepted>>

\* The aggregator's simulated record is persisted and the response sent.
SyncPersistApple(r) ==
    LET q == req[r] IN
    /\ q.kind = "sync" /\ q.pc = "persistApple"
    /\ \/ /\ records' = createWearableData(records, MockRow(q.userId, q.data))
          /\ Step(r, Respond([Logged(q, "persisted", "apple_health") EXCEPT
                                !.results = Append(@, Success("apple_health", q.data)),
                                !.data = <<>>], 200))
       \/ /\ UNCHANGED records
          /\ Step(r, Respond([Logged(q, "fault", "createWearableData") EXCEPT
                                !.results = Append(@, Failure("apple_health", "StorageFailure")),
                                !.data = <<>>], 200))
    /\ UNCHANGED <<tokens, now, accepted>>

----------------------------------------------------------------------------
(* GET /api/auth/whoop/:userId and the passport strategy of the tracker *)

\* The last segment of a GET /api/auth/whoop/... request.
WhoopAuthSegments == ParamStrings \cup {"2", "demo", "callback"}

\* The tracker's user id of the profile, as text (`user_id.toString()`).
WhoopProfileIds == {"4711"}

\* The users for whom a flow is started (GET /api/auth/whoop/<user>) and
\* later completed by the tracker's redirect to the callback.
FlowUserIds == {"1", "2"}

\* The userId of the query of a request for the demo authorization,
\* GET /api/auth/whoop/demo?userId=<user>.
DemoQueryUserIds == {"1"}

\* The request arrives at the first route that matches.  Without an
\* authorization code passport redirects to the tracker; with a code the
\* tracker grants (it comes back on the redirect URI, .../callback) passport
\* calls handleAuthentication, which stores the tokens for StrategyUserId.
\* The callback completes the flow started for user u: the request's arg
\* keeps u, of which handleAuthentication is given nothing.
StartWhoopAuthorize(r) ==
    /\ CanAccept(r)
    /\ \E seg \in WhoopAuthSegments, d \in DemoQueryUserIds :
        /\ Dispatch("GET", <<"api", "auth", "whoop", seg>>) = "whoopAuthorize"
        /\ LET q == [Idle EXCEPT !.kind = "whoopAuthorize", !.arg = seg,
                                 !.data = IF seg = "demo" THEN [userId |-> d] ELSE <<>>] IN
           \/ Accept(r, Respond(q, 302))
           \/ /\ seg = "callback"
              /\ \E g \in CodeGrants, id \in WhoopProfileIds, u \in FlowUserIds :
                    Accept(r, [q EXCEPT
                                 !.arg = u,
                                 !.userId = StrategyUserId,
                                 !.upd = [accessToken    |-> g.access_token,
                                          refreshToken   |-> g.refresh_token,
                                          expiresAt      |-> NewExpiresAt(now, g.expires_in),
                                          externalUserId |-> id],
                                 !.pc = "authGet"])
    /\ UNCHANGED <<tokens, records, now>>

\* handleAuthentication looks for the Credential.
WhoopAuthGet(r) ==
    LET q == req[r] IN
    /\ q.kind = "whoopAuthorize" /\ q.pc = "authGet"
    /\ \/ Step(r, [q EXCEPT !.tok = getWearableToken(tokens, q.userId, "whoop"),
                            !.at = now, !.pc = "authWrite"])
       \/ Step(r, Respond(Logged(q, "fault", "getWearableToken"), 500))
    /\ UNCHANGED <<tokens, records, now, accepted>>

\* The row an authorization inserts when it found no Credential.
NewCredential(q, provider) ==
    [userId         |-> q.userId,
     provider       |-> provider,
     accessToken    |-> q.upd.accessToken,
     refreshToken   |-> IF "refreshToken" \in DOMAIN q.upd THEN q.upd.refreshToken ELSE Null,
     expiresAt      |-> IF "expiresAt" \in DOMAIN q.upd THEN q.upd.expiresAt ELSE NullTime,
     externalUserId |-> q.upd.externalUserId]

\* The Credential write of an authorization: an update when it had found a
\* Credential, an insert when it had found none.
StoreCredential(q, provider) ==
    IF q.tok # <<>>
    THEN tokens' = updateWearableToken(tokens, q.userId, provider, q.upd, q.at)
    ELSE /\ ~DuplicateCredential(tokens, NewCredential(q, provider))
         /\ tokens' = createWearableToken(tokens, NewCredential(q, provider), now)

\* The insert of an authorization that had found no Credential is refused:
\* a Credential of the key has been stored meanwhile.
CreateRefused(q, provider) ==
    q.tok = <<>> /\ DuplicateCredential(tokens, NewCredential(q, provider))

\* handleAuthentication updates or inserts the Credential and calls done.
WhoopAuthWrite(r) ==
    LET q == req[r] IN
    /\ q.kind = "whoopAuthorize" /\ q.pc = "authWrite"
    /\ \/ /\ StoreCredential(q, "whoop")
          /\ Step(r, Respond(Logged(q, "stored", "whoop"), 302))
       \/ /\ CreateRefused(q, "whoop")
          /\ UNCHANGED tokens
          /\ Step(r, Respond(Logged(q, "fault", "DuplicateCredential"), 500))
       \/ /\ UNCHANGED tokens
          /\ Step(r, Respond(Logged(q, "fault", "storeWearableToken"), 500))
    /\ UNCHANGED <<records, now, accepted>>

----------------------------------------------------------------------------
(* GET /api/auth/apple/:userId *)

\* The last segment of a GET /api/auth/apple/... request.
AppleAuthSegments == ParamStrings \cup {"mock"}

\* The userId of the query of a request for the mocked authorization,
\* GET /api/auth/apple/mock?userId=<user>.
MockQueryUserIds == {"1"}

\* The request arrives at the first route that matches, which takes the last
\* segment for the user id: an invalid one is rejected, for a valid one the
\* URL of the mocked authorization is returned.  Nothing is stored.
AppleAuthorize(r) ==
    /\ CanAccept(r)
    /\ \E seg \in AppleAuthSegments, u \in MockQueryUserIds :
        /\ Dispatch("GET", <<"api", "auth", "apple", seg>>) = "appleAuthorize"
        /\ LET p == ParseInt(seg)
               q == [Idle EXCEPT !.kind = "appleAuthorize", !.arg = seg,
                                 !.userId = p.val,
                                 !.data = IF seg = "mock" THEN [userId |-> u] ELSE <<>>]
           IN  IF InvalidUserId(p)
               THEN Accept(r, Respond(q, 400))
               ELSE Accept(r, Respond(q, 200))
    /\ UNCHANGED <<tokens, records, now>>

----------------------------------------------------------------------------
(* POST /api/auth/apple/callback *)

\* The aggregator's user ids a callback or an event can carry.
ExternalIds == {"terra_a", "1"}

\* `parseInt(state.replace('apple_', ''))`, the state given as its prefix and
\* the rest: the prefix 'apple_' is removed, any other one is kept and makes
\* the text no number.
StateUserId(state) ==
    IF state.prefix \in {"apple_", ""} THEN ParseInt(state.rest) ELSE NaN

CallbackStates == { [prefix |-> "apple_", rest |-> s] : s \in ParamStrings }

StartAppleCallback(r) ==
    /\ CanAccept(r)
    /\ Dispatch("POST", <<"api", "auth", "apple", "callback">>) = "appleCallback"
    /\ \E status \in {"success", "error"}, state \in CallbackStates,
          user_id \in ExternalIds \cup {Null} :
        LET p == StateUserId(state)
            q == [Idle EXCEPT !.kind = "appleCallback", !.arg = state.rest,
                              !.userId = p.val]
        IN  IF status # "success" \/ InvalidUserId(p)
            THEN Accept(r, Respond(q, 400))
            ELSE Accept(r, [q EXCEPT
                              !.upd = [externalUserId |-> user_id,
                                       accessToken    |-> "terra_authenticated"],
                              !.pc = "authGet"])
    /\ UNCHANGED <<tokens, records, now>>

AppleCallbackGet(r) ==
    LET q == req[r] IN
    /\ q.kind = "appleCallback" /\ q.pc = "authGet"
    /\ \/ Step(r, [q EXCEPT !.tok = getWearableToken(tokens, q.userId, "apple_health"),
                            !.at = now, !.pc = "authWrite"])
       \/ Step(r, Respond(Logged(q, "fault", "getWearableToken"), 500))
    /\ UNCHANGED <<tokens, records, now, accepted>>

AppleCallbackWrite(r) ==
    LET q == req[r] IN
    /\ q.kind = "appleCallback" /\ q.pc = "authWrite"
    /\ \/ /\ StoreCredential(q, "apple_health")
          /\ Step(r, Respond(Logged(q, "stored", "apple_health"), 200))
       \/ /\ CreateRefused(q, "apple_health")
          /\ UNCHANGED tokens
          /\ Step(r, Respond(Logged(q, "fault", "DuplicateCredential"), 500))
       \/ /\ UNCHANGED tokens
          /\ Step(r, Respond(Logged(q, "fault", "storeWearableToken"), 500))
    /\ UNCHANGED <<records, now, accepted>>

----------------------------------------------------------------------------
(* POST /api/terra/webhook and POST /api/webhook *)

\* A slot of the transformer that is given null.
NoData == [device |-> Null, score |-> Absent, duration |-> NoText,
           strain |-> Absent, hrv |-> Absent, heartRate |-> Absent]

\* The payloads an event carries.
TerraPayloads ==
    { [device |-> "watch", score |-> 80, duration |-> <<8, 0>>,
       strain |-> Absent, hrv |-> Absent, heartRate |-> 61] }

EventTypes == {"body", "daily", "sleep", "activity"}

\* No `user` object in the body.
NoUser == "undefined"

\* The device tag of an aggregator record: that of the sub-device reported.
AppleDeviceType(device) == IF device = "ring" THEN "oura" ELSE "apple_watch"

\* transformAppleHealthData: sleep fields from the sleep slot, strain, HRV
\* and heart rate from the daily and body slots; absent stays absent.
transformAppleHealthData(sleepData, dailyData, bodyData) ==
    LET Pick(a, b) == IF a # Absent THEN a ELSE b
        given == IF sleepData # NoData THEN sleepData
                 ELSE IF dailyData # NoData THEN dailyData ELSE bodyData
    IN  [deviceType    |-> AppleDeviceType(given.device),
         sleepScore    |-> sleepData.score,
         sleepDuration |-> sleepData.duration,
         strainLevel   |-> dailyData.strain,
         hrv           |-> Pick(dailyData.hrv, bodyData.hrv),
         heartRate     |-> Pick(dailyData.heartRate, bodyData.heartRate)]

\* The event handed to the transformer in the slot of its category.
TransformEvent(type, data) ==
    transformAppleHealthData(IF type = "sleep" THEN data ELSE NoData,
                             IF type = "daily" THEN data ELSE NoData,
                             IF type = "body"  THEN data ELSE NoData)

\* The event arrives.  An event of another category is acknowledged at
\* once; `user.user_id` of a body without `user` throws.
StartTerraWebhook(r) ==
    /\ CanAccept(r)
    /\ Dispatch("POST", <<"api", "terra", "webhook">>) = "terraWebhook"
    /\ \E type \in EventTypes, user \in ExternalIds \cup {NoUser}, data \in TerraPayloads :
        LET q == [Idle EXCEPT !.kind = "terraWebhook", !.arg = user,
                              !.data = [type |-> type, data |-> data]]
        IN  IF type \in {"body", "daily", "sleep"}
            THEN IF user = NoUser
                 THEN Accept(r, Respond(Logged(q, "fault", "TypeError"), 500))
                 ELSE Accept(r, [q EXCEPT !.pc = "hookGet"])
            ELSE Accept(r, Respond(q, 200))
    /\ UNCHANGED <<tokens, records, now>>

\* `storage.getWearableToken(user.user_id, 'apple_health')`: the event's
\* external user id is given where the query takes the user id, so the rows
\* selected are those whose user_id column equals it: a text that is a number
\* selects the rows of that user; any other text selects none, or makes the
\* query fail (the second branch).
TerraWebhookGet(r) ==
    LET q == req[r] IN
    /\ q.kind = "terraWebhook" /\ q.pc = "hookGet"
    /\ \/ LET id  == ParseInt(q.arg)
              tok == IF id.nan THEN <<>>
                     ELSE getWearableToken(tokens, id.val, "apple_health")
          IN  IF tok = <<>>
              THEN Step(r, Respond([Logged(q, "absent", "apple_health") EXCEPT !.data = <<>>], 200))
              ELSE Step(r, [Logged(q, "loaded", "apple_health") EXCEPT
                              !.tok = tok,
                              !.userId = tok[1].userId,
                              !.data = TransformEvent(q.data.type, q.data.data),
                              !.pc = "hookPersist"])
       \/ Step(r, Respond([Logged(q, "fault", "getWearableToken") EXCEPT !.data = <<>>], 500))
    /\ UNCHANGED <<tokens, records, now, accepted>>

TerraWebhookPersist(r) ==
    LET q == req[r] IN
    /\ q.kind = "terraWebhook" /\ q.pc = "hookPersist"
    /\ \/ /\ records' = createWearableData(records, RealRow(q.tok[1].userId, q.data))
          /\ Step(r, Respond([Logged(q, "persisted", "apple_health") EXCEPT !.data = <<>>], 200))
       \/ /\ UNCHANGED records
          /\ Step(r, Respond([Logged(q, "fault", "createWearableData") EXCEPT !.data = <<>>], 500))
    /\ UNCHANGED <<tokens, now, accepted>>

\* The tracker's webhook: logged and acknowledged.
WhoopWebhook(r) ==
    /\ CanAccept(r)
    /\ Dispatch("POST", <<"api", "webhook">>) = "whoopWebhook"
    /\ Accept(r, Respond([Idle EXCEPT !.kind = "whoopWebhook"], 200))
    /\ UNCHANGED <<tokens, records, now>>

----------------------------------------------------------------------------
(* DELETE /api/auth/:provider/:userId *)

ProviderNames == Providers \cup {"fitbit"}

StartDisconnect(r) ==
    /\ CanAccept(r)
    /\ \E provider \in ProviderNames, s \in SyncUserIds :
        /\ Dispatch("DELETE", <<"api", "auth", provider, s>>) = "disconnect"
        /\ LET p == ParseInt(s)
               q == [Idle EXCEPT !.kind = "disconnect", !.arg = provider, !.userId = p.val]
           IN  IF InvalidUserId(p) \/ provider \notin {"whoop", "apple_health"}
               THEN Accept(r, Respond(q, 400))
               ELSE Accept(r, [q EXCEPT !.pc = "delete"])
    /\ UNCHANGED <<tokens, records, now>>

DisconnectDelete(r) ==
    LET q == req[r] IN
    /\ q.kind = "disconnect" /\ q.pc = "delete"
    /\ \/ /\ tokens' = deleteWearableToken(tokens, q.userId, q.arg)
          /\ Step(r, Respond(Logged(q, IF getWearableToken(tokens, q.userId, q.arg) = <<>>
                                       THEN "deletedNone" ELSE "deleted", q.arg), 200))
       \/ /\ UNCHANGED tokens
          /\ Step(r, Respond(Logged(q, "fault", "deleteWearableToken"), 500))
    /\ UNCHANGED <<records, now, accepted>>

----------------------------------------------------------------------------
(* The system *)

\* The response has been delivered; the slot serves the next request.
Retire(r) ==
    /\ req[r].pc = "done"
    /\ req' = [req EXCEPT ![r] = Idle]
    /\ UNCHANGED <<tokens, records, now, accepted>>

\* Time passes.
Tick ==
    /\ now < MaxTime
    /\ now' = now + 1
    /\ UNCHANGED <<tokens, records, req, accepted>>

\* The Credentials the database holds when the server starts: what
\* authorizations served before (by handleAuthentication for the tracker, by
\* the aggregator's callback) have left there, at most one per key.
InitialWhoop ==
    {<<>>} \cup
    { createWearableToken(<<>>,
          [userId |-> StrategyUserId, provider |-> "whoop",
           accessToken |-> g.access_token, refreshToken |-> g.refresh_token,
           expiresAt |-> NewExpiresAt(0, g.expires_in), externalUserId |-> id], 0) :
        g \in CodeGrants, id \in WhoopProfileIds }

InitialApple ==
    {<<>>} \cup
    { createWearableToken(<<>>,
          [userId |-> 1, provider |-> "apple_health",
           accessToken |-> "terra_authenticated", refreshToken |-> Null,
           expiresAt |-> NullTime, externalUserId |-> id], 0) :
        id \in {"terra_a"} }

Init ==
    /\ \E w \in InitialWhoop, a \in InitialApple : tokens = w \o a
    /\ records = <<>>
    /\ now = 0
    /\ req = [r \in Slots |-> Idle]
    /\ accepted = 0

\* No response is waiting to be delivered.
Quiet == \A r \in Slots : req[r].pc # "done"

\* The steps of the handlers.
Handle(r) ==
    \/ StartSync(r)
    \/ SyncWhoopGet(r)
    \/ SyncRefresh(r)
    \/ SyncRefreshUpdate(r)
    \/ SyncFetch(r)
    \/ SyncPersistReal(r)
    \/ SyncPersistDemo(r)
    \/ SyncDemoUpdate(r)
    \/ SyncAppleGet(r)
    \/ SyncPersistApple(r)
    \/ StartWhoopAuthorize(r)
    \/ WhoopAuthGet(r)
    \/ WhoopAuthWrite(r)
    \/ AppleAuthorize(r)
    \/ StartAppleCallback(r)
    \/ AppleCallbackGet(r)
    \/ AppleCallbackWrite(r)
    \/ StartTerraWebhook(r)
    \/ TerraWebhookGet(r)
    \/ TerraWebhookPersist(r)
    \/ WhoopWebhook(r)
    \/ StartDisconnect(r)
    \/ DisconnectDelete(r)

\* A response is delivered as soon as it is sent: a finished request leaves
\* before any other step is taken.
Next ==
    \/ \E r \in Slots : Retire(r)
    \/ Quiet /\ Tick
    \/ Quiet /\ \E r \in Slots : Handle(r)

Spec == Init /\ [][Next]_vars

----------------------------------------------------------------------------
(* Properties.  A request's log is the history of what its handler met:
   which Credential lookups found a row, which calls on the provider were
   answered, which storage writes were done and which failed. *)

Has(q, ev, arg) == \E i \in 1..Len(q.log) : q.log[i] = Event(ev, arg)
HasEv(q, ev) == \E i \in 1..Len(q.log) : q.log[i].ev = ev
Faulted(q, op) == Has(q, "fault", op)

\* The lookup of the provider's Credential found one.
Found(q, provider) == Has(q, "loaded", provider) \/ Has(q, "loadedStale", provider)

\* The outcomes for a provider in the results of a sync request.
Outcomes(q, provider) == SelectSeq(q.results, LAMBDA o : o.provider = provider)

SyncDone(q) == q.kind = "sync" /\ q.pc = "done"
TerraDone(q) == q.kind = "terraWebhook" /\ q.pc = "done"

\* A path parameter that is a valid user id.
ValidUser(s) == LET p == ParseInt(s) IN ~p.nan /\ p.val # 0

\* One outcome, with status success and a simulated tracker record, whose
\* row is among the persisted records.
SimulatedSuccess(q, out) ==
    /\ Len(out) = 1
    /\ out[1].status = "success"
    /\ \E rnd \in RandomDraws, t \in 0..MaxTime : out[1].data = demoData(rnd, t)
    /\ \E i \in 1..Len(records) :
          records[i] = DemoRow(q.userId, out[1].data) @@ [id |-> i]

\* C1: a sync that answers returns, for every provider, exactly one outcome
\* if the lookup of the user's Credential for that provider found one,
\* whatever that Credential's other fields, and no outcome if it found none.
C1_OneOutcomePerCredential ==
    \A r \in Slots :
        LET q == req[r] IN
        SyncDone(q) /\ q.status = 200 =>
            \A p \in Providers :
                Len(Outcomes(q, p)) = IF Found(q, p) THEN 1 ELSE 0

\* C2: when the tracker's refresh is rejected in a sync of a user who has an
\* aggregator Credential too, and no storage operation fails, the results
\* hold an error outcome for the tracker only and a success outcome for the
\* aggregator.
C2_RefreshRejectionIsolated ==
    \A r \in Slots :
        LET q == req[r] IN
        SyncDone(q) /\ HasEv(q, "refreshRejected") /\ Found(q, "apple_health")
                    /\ ~HasEv(q, "fault") =>
            /\ q.status = 200
            /\ Len(Outcomes(q, "whoop")) = 1
            /\ Outcomes(q, "whoop")[1].status = "error"
            /\ Len(Outcomes(q, "apple_health")) = 1
            /\ Outcomes(q, "apple_health")[1].status = "success"

\* C3 as stated: whenever the tracker's fetch fails during a sync, the
\* request succeeds and the tracker's outcome is a success carrying a
\* simulated record that is persisted.
C3_FetchFailureAlwaysSucceeds ==
    \A r \in Slots :
        LET q == req[r] IN
        SyncDone(q) /\ HasEv(q, "fetchFailed") =>
            q.status = 200 /\ SimulatedSuccess(q, Outcomes(q, "whoop"))

\* C3: when the tracker's fetch fails during a sync, the tracker gets exactly
\* one outcome: a success carrying a persisted simulated record if the
\* record was persisted and the Credential's timestamp updated, an error if
\* either write failed; and the request succeeds unless the lookup of the
\* aggregator's Credential fails.
C3_FetchFailureFallsBack ==
    \A r \in Slots :
        LET q   == req[r]
            out == Outcomes(q, "whoop")
        IN
        SyncDone(q) /\ HasEv(q, "fetchFailed") =>
            /\ Len(out) = 1
            /\ IF Has(q, "updated", "timestamp")
               THEN SimulatedSuccess(q, out)
               ELSE /\ out[1].status = "error"
                    /\ Faulted(q, "createWearableData") \/ Faulted(q, "updateWearableToken")
            /\ ~Has(q, "persisted", "real")
            /\ q.status = IF Faulted(q, "getWearableToken") THEN 500 ELSE 200

C3_FellBack ==
    \E r \in Slots :
        /\ SyncDone(req[r]) /\ HasEv(req[r], "fetchFailed")
        /\ req[r].status = 200
        /\ SimulatedSuccess(req[r], Outcomes(req[r], "whoop"))

\* C4: every webhook event received, malformed ones included, is
\* acknowledged with a success response.
C4_WebhookAlwaysAcknowledged ==
    \A r \in Slots :
        req[r].kind \in {"terraWebhook", "whoopWebhook"} /\ req[r].pc = "done" =>
            req[r].status = 200

\* C5: an event whose external user identifier is the externalUserId of no
\* stored Credential, nor of the Credential its handler loaded, persists no
\* record and, if no storage operation fails, is acknowledged.
C5_UnknownExternalIdIgnored ==
    \A r \in Slots :
        LET q == req[r] IN
        /\ TerraDone(q)
        /\ \A i \in 1..Len(tokens) : tokens[i].externalUserId # q.arg
        /\ q.tok = <<>> \/ q.tok[1].externalUserId # q.arg
        => /\ ~Has(q, "persisted", "apple_health")
           /\ ~HasEv(q, "fault") => q.status = 200

\* C6: an event of a handled category carrying the external user identifier
\* E, whose Credential lookup does not fail, is resolved through the
\* Credential whose externalUserId equals E: if an aggregator Credential
\* with that externalUserId is stored the handler finds a Credential, and a
\* Credential it finds has that externalUserId.
C6_ResolvedByExternalUserId ==
    \A r \in Slots :
        LET q == req[r] IN
        TerraDone(q) =>
            /\ Has(q, "absent", "apple_health") =>
                  ~\E i \in 1..Len(tokens) :
                      /\ tokens[i].provider = "apple_health"
                      /\ tokens[i].externalUserId = q.arg
            /\ Found(q, "apple_health") => q.tok[1].externalUserId = q.arg

NoCredentials(q) ==
    /\ ValidUser(q.arg)
    /\ \A i \in 1..Len(tokens) : tokens[i].userId # q.userId
    /\ \A p \in Providers : ~Found(q, p)

\* C8 as stated: a sync of a valid user who has no Credential succeeds and
\* returns an empty list of outcomes.
C8_NoCredentialsAlwaysSucceeds ==
    \A r \in Slots :
        LET q == req[r] IN
        SyncDone(q) /\ NoCredentials(q) => q.status = 200 /\ q.results = <<>>

\* C8: a sync of a valid user who has no Credential persists no record and
\* changes no Credential; it succeeds with an empty list of outcomes if both
\* Credential lookups succeed, and fails with a server error if one fails.
C8_NoCredentialsNoEffect ==
    \A r \in Slots :
        LET q == req[r] IN
        SyncDone(q) /\ NoCredentials(q) =>
            /\ ~HasEv(q, "persisted") /\ ~HasEv(q, "updated")
            /\ q.results = <<>>
            /\ q.status = IF Faulted(q, "getWearableToken") THEN 500 ELSE 200

C8_EmptySync ==
    \E r \in Slots :
        /\ SyncDone(req[r]) /\ NoCredentials(req[r])
        /\ tokens # <<>>
        /\ req[r].status = 200 /\ req[r].results = <<>>

\* The request refreshed the Credential before it fetched.
RefreshedBeforeFetch(q) ==
    \E i, j \in 1..Len(q.log) :
        i < j /\ q.log[i].ev = "refreshed" /\ q.log[j] = Event("updated", "refresh")
              /\ \E k \in 1..Len(q.log) : j < k /\ q.log[k].ev = "fetched"

RefreshWrite(r) ==
    /\ req[r].kind = "sync" /\ req[r].pc = "refreshUpdate"
    /\ req'[r].pc = "fetch"

\* The write leaves every Credential's identity as it was.
IdentityKept ==
    /\ Len(tokens') = Len(tokens)
    /\ \A i \in 1..Len(tokens) :
          /\ tokens'[i].userId = tokens[i].userId
          /\ tokens'[i].provider = tokens[i].provider
          /\ tokens'[i].externalUserId = tokens[i].externalUserId

\* C10 as stated: a refresh writes an expiresAt strictly later than the
\* stored Credential's previous expiresAt, and leaves its externalUserId,
\* userId and provider unchanged.
C10_RefreshMovesExpiryForward ==
    [][\A r \in Slots :
          RefreshWrite(r) =>
              /\ IdentityKept
              /\ \A i \in 1..Len(tokens) :
                    KeyMatches(tokens[i], req[r].userId, "whoop") =>
                        tokens'[i].expiresAt > tokens[i].expiresAt]_vars

\* C10: a refresh writes an expiresAt strictly later than the expiresAt of
\* the Credential as the sync loaded it, and leaves the externalUserId,
\* userId and provider of the stored Credential unchanged.
C10_RefreshOutlivesLoaded ==
    [][\A r \in Slots :
          RefreshWrite(r) =>
              /\ IdentityKept
              /\ \A i \in 1..Len(tokens) :
                    KeyMatches(tokens[i], req[r].userId, "whoop") =>
                        tokens'[i].expiresAt > req[r].tok[1].expiresAt]_vars

C10_RefreshWritten ==
    \E r \in Slots :
        LET q == req[r] IN
        /\ q.kind = "sync" /\ Has(q, "updated", "refresh")
        /\ \E i \in 1..Len(tokens) :
              /\ KeyMatches(tokens[i], q.userId, "whoop")
              /\ tokens[i].accessToken = "at2"
              /\ tokens[i].expiresAt > q.tok[1].expiresAt

----------------------------------------------------------------------------
(* Disconnect *)

\* A Credential of the key is stored.
Stored(T, userId, provider) ==
    \E i \in 1..Len(T) : T[i].userId = userId /\ T[i].provider = provider

\* The rows of T other than those of the key, in their order.
Others(T, userId, provider) ==
    SelectSeq(T, LAMBDA row : ~(row.userId = userId /\ row.provider = provider))

\* The step in which the delete of disconnect r is answered.
DeleteStep(r) ==
    /\ req[r].kind = "disconnect" /\ req[r].pc = "delete"
    /\ req'[r].pc = "done"

\* C11 as stated: a delete for a key with no stored Credential raises no
\* error and leaves the stored state unchanged, so that a repeated
\* disconnect is answered like the first.
C11_DeleteOfAbsentSucceeds ==
    [][\A r \in Slots :
          DeleteStep(r) /\ ~Stored(tokens, req[r].userId, req[r].arg) =>
              tokens' = tokens /\ req'[r].status = 200]_vars

\* C11: a delete for a key with no stored Credential leaves the stored
\* state unchanged; a delete that is answered with success leaves no
\* Credential of the key, so that deleting again changes nothing; and a
\* delete is answered with an error only when the storage operation itself
\* fails, in which case nothing is changed.
C11_DeleteIdempotent ==
    [][\A r \in Slots :
          DeleteStep(r) =>
              LET q == req'[r] IN
              /\ ~Stored(tokens, q.userId, q.arg) => tokens' = tokens
              /\ q.status = 200 =>
                    /\ ~Stored(tokens', q.userId, q.arg)
                    /\ deleteWearableToken(tokens', q.userId, q.arg) = tokens'
              /\ q.status # 200 =>
                    /\ q.status = 500
                    /\ Faulted(q, "deleteWearableToken")
                    /\ tokens' = tokens]_vars

\* A disconnect for a key with no stored Credential has been answered with
\* success.
C11_DeletedAbsent ==
    \E r \in Slots :
        /\ req[r].kind = "disconnect" /\ req[r].pc = "done"
        /\ Has(req[r], "deletedNone", req[r].arg)
        /\ req[r].status = 200
        /\ tokens # <<>>

\* The step in which disconnect r arrives.
DisconnectArrives(r) == req[r].pc = "idle" /\ req'[r].kind = "disconnect"

\* The provider name or the user id of a disconnect is not acceptable.
BadDisconnect(q) == q.arg \notin Providers \/ q.userId = 0

\* A disconnect with a bad provider name or user id is answered with a
\* client error and deletes nothing; any other one goes on to the delete.
DisconnectChecked(r) ==
    DisconnectArrives(r) =>
        /\ tokens' = tokens /\ records' = records
        /\ IF BadDisconnect(req'[r])
           THEN req'[r].pc = "done" /\ req'[r].status = 400
           ELSE req'[r].pc = "delete"

\* C12 as stated: a disconnect with an unknown provider name or an invalid
\* user id is rejected with a client error and deletes nothing; any other
\* one removes exactly the Credential of its key and leaves every other
\* Credential and every record unchanged.
C12_DisconnectRemovesItsCredential ==
    [][\A r \in Slots :
          /\ DisconnectChecked(r)
          /\ DeleteStep(r) =>
                /\ tokens' = Others(tokens, req[r].userId, req[r].arg)
                /\ records' = records]_vars

\* C12: a disconnect with an unknown provider name or an invalid user id is
\* rejected with a client error and deletes nothing; any other one, when it
\* is answered with success, has removed exactly the Credential of its key,
\* and when the storage delete fails is answered with a server error and
\* has removed nothing; in every case every other Credential and every
\* record is unchanged.
C12_DisconnectRemovesOnlyItsCredential ==
    [][\A r \in Slots :
          /\ DisconnectChecked(r)
          /\ DeleteStep(r) =>
                /\ records' = records
                /\ Others(tokens', req[r].userId, req[r].arg)
                      = Others(tokens, req[r].userId, req[r].arg)
                /\ IF req'[r].status = 200
                   THEN tokens' = Others(tokens, req[r].userId, req[r].arg)
                   ELSE req'[r].status = 500 /\ tokens' = tokens]_vars

\* A disconnect has removed its Credential and another Credential is left.
C12_Disconnected ==
    \E r \in Slots :
        LET q == req[r] IN
        /\ q.kind = "disconnect" /\ q.pc = "done" /\ q.status = 200
        /\ Has(q, "deleted", q.arg)
        /\ ~Stored(tokens, q.userId, q.arg)
        /\ tokens # <<>>

----------------------------------------------------------------------------
(* Propagation of failures in sync *)

\* C13 as stated: a sync ends in a request-level failure only when its
\* user id is invalid; for every valid user id it succeeds.
C13_OnlyInvalidUserFails ==
    \A r \in Slots :
        LET q == req[r] IN
        SyncDone(q) => q.status = IF ValidUser(q.arg) THEN 200 ELSE 400

\* A failure met while processing the provider.
ProviderFailed(q, provider) ==
    IF provider = "whoop"
    THEN \/ HasEv(q, "refreshRejected") \/ HasEv(q, "fetchFailed")
         \/ Faulted(q, "updateWearableToken") \/ Faulted(q, "createWearableData")
    ELSE Faulted(q, "createWearableData")

\* C13: a sync ends in a request-level failure only when its user id is
\* invalid (client error) or a lookup of a Credential fails (server error);
\* otherwise it succeeds and returns the outcome list, and a failure met
\* while processing a provider (refresh, fetch, persisting the record,
\* updating the Credential) leaves the request successful: an error outcome
\* is that of a provider whose processing met a failure, and a rejected
\* refresh or a failed Credential update gives the tracker's error outcome.
C13_FailuresContained ==
    \A r \in Slots :
        LET q == req[r] IN
        SyncDone(q) =>
            /\ q.status = IF ~ValidUser(q.arg) THEN 400
                          ELSE IF Faulted(q, "getWearableToken") THEN 500 ELSE 200
            /\ ~ValidUser(q.arg) => q.log = <<>> /\ q.results = <<>>
            /\ \A i \in 1..Len(q.results) :
                  q.results[i].status = "error" =>
                      ProviderFailed(q, q.results[i].provider)
            /\ HasEv(q, "refreshRejected") \/ Faulted(q, "updateWearableToken") =>
                  /\ Len(Outcomes(q, "whoop")) = 1
                  /\ Outcomes(q, "whoop")[1].status = "error"

\* A sync has met a storage failure while processing the tracker, reported
\* it as the tracker's outcome and succeeded with the aggregator's outcome.
C13_FailureContained ==
    \E r \in Slots :
        LET q == req[r] IN
        /\ SyncDone(q) /\ q.status = 200
        /\ Faulted(q, "updateWearableToken")
        /\ Len(q.results) = 2
        /\ q.results[1].status = "error" /\ q.results[2].status = "success"

----------------------------------------------------------------------------
(* Authorization *)

\* C14: when the tracker's flow started for user U completes successfully,
\* the Credential created or updated is the one keyed (U, whoop), and no
\* Credential of another user is created or changed.
C14_FlowStoresForItsUser ==
    [][\A r \in Slots :
          /\ req[r].kind = "whoopAuthorize" /\ req[r].pc = "authWrite"
          /\ Has(req'[r], "stored", "whoop")
          => LET U == ParseInt(req[r].arg).val IN
             /\ Stored(tokens', U, "whoop")
             /\ Others(tokens', U, "whoop") = Others(tokens, U, "whoop")]_vars

\* C15: once the request for the aggregator's mocked authorization of a
\* valid user U, GET /api/auth/apple/mock?userId=U, has been answered, a
\* Credential (U, apple_health) with an externalUserId and without expiry
\* is stored.
C15_MockRedirectConnects ==
    \A r \in Slots :
        LET q == req[r] IN
        /\ q.kind = "appleAuthorize" /\ q.pc = "done" /\ q.arg = "mock"
        /\ ValidUser(q.data.userId)
        => \E i \in 1..Len(tokens) :
              /\ tokens[i].userId = ParseInt(q.data.userId).val
              /\ tokens[i].provider = "apple_health"
              /\ tokens[i].externalUserId # Null
              /\ tokens[i].expiresAt = NullTime

----------------------------------------------------------------------------
(* Records *)

\* Request r stores a record in this step.
Persists(r) ==
    /\ Len(req'[r].log) = Len(req[r].log) + 1
    /\ req'[r].log[Len(req'[r].log)].ev = "persisted"

\* C16: no step modifies or removes a stored record, and every sync or
\* webhook step that stores data adds exactly one record, whose id is that
\* of no record stored before.
C16_RecordsAppendOnly ==
    [][/\ Len(records') >= Len(records)
       /\ \A i \in 1..Len(records) : records'[i] = records[i]
       /\ \A j \in (Len(records) + 1)..Len(records') :
             \A i \in 1..Len(records) : records'[j].id # records[i].id
       /\ \A r \in Slots :
             Persists(r) => Len(records') = Len(records) + 1]_vars

\* Two records are stored, under different ids, for one user and device.
C16_HistoryGrew ==
    /\ Len(records) = 2
    /\ records[1].id # records[2].id
    /\ records[1].userId = records[2].userId
    /\ records[1].deviceType = records[2].deviceType

\* The step in which request r persists the output of a transformer: the
\* tracker's fetched record in sync, the event's record in the webhook.
PersistsTransformed(r) ==
    /\ Persists(r)
    /\ \/ req[r].kind = "sync" /\ req[r].pc = "persistReal"
       \/ req[r].kind = "terraWebhook" /\ req[r].pc = "hookPersist"

\* The persisted number is the transformer's, and is absent only if the
\* transformer's is.
NumberKept(given, kept) ==
    /\ given # Absent => kept = given
    /\ kept = Absent => given = Absent

\* The persisted text of the strain is that of the transformer's number,
\* and is absent only if the transformer's number is.
StrainKept(given, kept) ==
    /\ given # Absent => kept # NoText /\ kept[1] = given
    /\ kept = NoText => given = Absent

\* C17: on the sync path and on the webhook path, each numeric field of the
\* persisted record equals the transformer's value when that is a number
\* (for the sleep score: one of 0..100), and is absent only when the
\* transformer's value is absent.
C17_NumbersPersistedAsGiven ==
    [][\A r \in Slots :
          PersistsTransformed(r) =>
              LET given == req[r].data
                  kept  == records'[Len(records')]
              IN  /\ given.sleepScore \in 0..100 => kept.sleepScore = given.sleepScore
                  /\ kept.sleepScore = Absent => given.sleepScore = Absent
                  /\ NumberKept(given.hrv, kept.hrv)
                  /\ NumberKept(given.heartRate, kept.heartRate)
                  /\ StrainKept(given.strainLevel, kept.strainLevel)]_vars

\* The row's values are within the ranges of simulated records: sleep score
\* 60..99, 7 or 8 hours plus 0..59 minutes, strain 5.0..19.9 written with
\* one decimal, HRV 25..74, heart rate 60..99.
InSimulatedRanges(row) ==
    /\ row.sleepScore \in 60..99
    /\ row.sleepDuration[1] \in {7, 8} /\ row.sleepDuration[2] \in 0..59
    /\ row.strainLevel[1] \in 50..199 /\ row.strainLevel[2] = 1
    /\ row.hrv \in 25..74
    /\ row.heartRate \in 60..99

\* C18: every simulated record that sync is about to persist, the tracker's
\* and the aggregator's, has its values within the ranges of simulated
\* records.
C18_SimulatedInRanges ==
    \A r \in Slots :
        LET q == req[r] IN
        q.kind = "sync" =>
            /\ q.pc = "persistDemo" => InSimulatedRanges(DemoRow(q.userId, q.data))
            /\ q.pc = "persistApple" => InSimulatedRanges(MockRow(q.userId, q.data))

----------------------------------------------------------------------------
(* The contract of the Credential store *)

\* The provider whose Credential an authorization writes.
AuthProvider(q) == IF q.kind = "whoopAuthorize" THEN "whoop" ELSE "apple_health"

\* The step in which authorization r, having found no Credential of its
\* key, has its create answered.
CreateStep(r) ==
    /\ req[r].kind \in {"whoopAuthorize", "appleCallback"}
    /\ req[r].pc = "authWrite" /\ req[r].tok = <<>>
    /\ req'[r].pc = "done"

UpdatedProvider(q) == IF q.kind = "appleCallback" THEN "apple_health" ELSE "whoop"

\* The step in which an update of a Credential issued by request r is
\* answered: sync's write of the refreshed fields or of the timestamp, or
\* the write of an authorization that had found a Credential.
UpdateStep(r) ==
    \/ /\ req[r].kind = "sync" /\ req[r].pc \in {"refreshUpdate", "demoUpdate"}
       /\ req'[r].pc # req[r].pc
    \/ /\ req[r].kind \in {"whoopAuthorize", "appleCallback"}
       /\ req[r].pc = "authWrite" /\ req[r].tok # <<>>
       /\ req'[r].pc = "done"

\* C20: an update for a key that has no stored Credential fails with an
\* error and creates nothing.
C20_UpdateOfAbsentFails ==
    [][\A r \in Slots :
          UpdateStep(r) /\ ~Stored(tokens, req[r].userId, UpdatedProvider(req[r])) =>
              /\ tokens' = tokens
              /\ req'[r].log[Len(req'[r].log)].ev = "fault"]_vars

----------------------------------------------------------------------------
(* Sync Outcomes and webhook records *)

\* The outcomes sync reports for records fetched from the tracker.
RealOutcomes ==
    { Success("whoop", transformWHOOPData(p.recovery, p.sleep, p.cycle)) :
        p \in WhoopPayloads }

\* An outcome that carries a simulated record.
Simulated(o) ==
    /\ o.status = "success"
    /\ \E rnd \in RandomDraws, t \in 0..MaxTime :
          o.data \in {demoData(rnd, t), mockData(rnd, t)}

\* Two outcomes with the same fields that agree on every field but the
\* record they carry.
SameButRecord(o1, o2) ==
    /\ DOMAIN o1 = DOMAIN o2
    /\ \A f \in DOMAIN o1 \ {"data"} : o1[f] = o2[f]

\* C21: an outcome that carries a simulated record is tagged: it differs
\* from every outcome that carries a real record in some field other than
\* the record itself.
C21_SimulatedOutcomeTagged ==
    \A r \in Slots : \A i \in 1..Len(req[r].results) :
        Simulated(req[r].results[i]) =>
            \A real \in RealOutcomes : ~SameButRecord(req[r].results[i], real)

\* The users an external user id is bound to by the stored aggregator
\* Credentials.
BoundUsers(T, externalId) ==
    { T[i].userId : i \in { j \in 1..Len(T) :
                              /\ T[j].provider = "apple_health"
                              /\ T[j].externalUserId = externalId } }

\* The step in which the lookup of a sleep event without strain and HRV is
\* answered without a storage failure.
SleepEventResolved(r) ==
    /\ req[r].kind = "terraWebhook" /\ req[r].pc = "hookGet"
    /\ req[r].data.type = "sleep"
    /\ req[r].data.data.strain = Absent /\ req[r].data.data.hrv = Absent
    /\ req'[r].pc # "hookGet"
    /\ ~HasEv(req'[r], "fault")

\* C22: a sleep event without strain and HRV for an external id bound to
\* user U goes on to persist a record of U whose sleep score and duration
\* are the event's and whose strain and HRV are absent.
C22_SleepEventPersistsSleepFields ==
    [][\A r \in Slots : \A U \in BoundUsers(tokens, req[r].arg) :
          SleepEventResolved(r) =>
              /\ req'[r].pc = "hookPersist"
              /\ LET row == RealRow(req'[r].tok[1].userId, req'[r].data) IN
                  /\ row.userId = U
                  /\ row.sleepScore = req[r].data.data.score
                  /\ row.sleepDuration = req[r].data.data.duration
                  /\ row.strainLevel = NoText
                  /\ row.hrv = Absent]_vars

----------------------------------------------------------------------------
(* Refresh during sync *)

\* The step in which sync loads the tracker's Credential.
LoadsWhoop(r) ==
    /\ req[r].kind = "sync" /\ req[r].pc = "whoopGet"
    /\ req'[r].tok # <<>>

\* A Credential the spec has refreshed: stale, with a refresh token.
Refreshable(token, time) == Stale(token, time) /\ token.refreshToken # Null

\* C23: sync goes to the adapter's refresh iff the Credential it loaded is
\* stale and has a refresh token; any other Credential, one without expiry
\* or without refresh token included, goes to the fetch.
C23_RefreshIffStaleWithRefreshToken ==
    [][\A r \in Slots :
          LoadsWhoop(r) =>
              IF Refreshable(req'[r].tok[1], now)
              THEN req'[r].pc = "refresh"
              ELSE req'[r].pc = "fetch"]_vars

\* A sync whose refresh was rejected.
Rejected(q) == q.kind = "sync" /\ HasEv(q, "refreshRejected")

Holds(T, userId, provider, updates) ==
    \E i \in 1..Len(T) :
        /\ KeyMatches(T[i], userId, provider)
        /\ T[i].accessToken = updates.accessToken
        /\ T[i].refreshToken = updates.refreshToken
        /\ T[i].expiresAt = updates.expiresAt

\* A step of request r after it has written its refreshed fields.
AfterRefreshWrite(r) ==
    /\ req[r].kind = "sync" /\ Has(req[r], "updated", "refresh")
    /\ req'[r] # req[r]

\* The step leaves the tokens and the expiry of every Credential as they were.
GrantKept ==
    /\ Len(tokens') = Len(tokens)
    /\ \A i \in 1..Len(tokens) :
          /\ tokens'[i].accessToken = tokens[i].accessToken
          /\ tokens'[i].refreshToken = tokens[i].refreshToken
          /\ tokens'[i].expiresAt = tokens[i].expiresAt

\* C25: when a sync goes from its refresh write to the fetch, the stored
\* Credential holds the access token, refresh token and expiry granted; the
\* fetch is made with the granted access token; no later step of the
\* request, real or simulated path, changes those fields.
C25_RefreshStoredBeforeFetch ==
    [][\A r \in Slots :
          /\ RefreshWrite(r) => Holds(tokens', req[r].userId, "whoop", req[r].upd)
          /\ AfterRefreshWrite(r) =>
                /\ GrantKept
                /\ req[r].pc = "fetch" =>
                      req'[r].log[Len(req'[r].log)].arg
                          \in { g.access_token : g \in RefreshGrants }]_vars

\* Sync r has been granted a refresh that it has yet to persist.
RefreshInHand(q) == q.kind = "sync" /\ q.pc = "refreshUpdate"

\* C26: refresh is not serialised per user: while a sync has a refresh in
\* hand that it has yet to persist, another sync of the same user that
\* loaded the same stale Credential can call refresh, and the refresh token
\* it presents is the one the first presented.
C26_RefreshNotSerialised ==
    \A r, s \in Slots :
        /\ r # s
        /\ RefreshInHand(req[r])
        /\ req[s].kind = "sync" /\ req[s].pc = "refresh"
        /\ req[s].userId = req[r].userId
        /\ req[s].tok = req[r].tok
        => /\ ENABLED SyncRefresh(s)
           /\ Has(req[r], "refreshed", req[s].tok[1].refreshToken)

\* Two syncs of a user have each been granted a refresh for the same stored
\* refresh token, and neither has persisted its result.
C26_BothRefreshed ==
    \E r, s \in Slots :
        /\ r # s
        /\ RefreshInHand(req[r]) /\ RefreshInHand(req[s])
        /\ req[s].userId = req[r].userId
        /\ Has(req[r], "loadedStale", "whoop") /\ Has(req[s], "loadedStale", "whoop")
        /\ \E i \in 1..Len(tokens) :
              /\ KeyMatches(tokens[i], req[r].userId, "whoop")
              /\ tokens[i].refreshToken # Null
              /\ Has(req[r], "refreshed", tokens[i].refreshToken)
              /\ Has(req[s], "refreshed", tokens[i].refreshToken)

----------------------------------------------------------------------------
(* Deliveries of webhook events *)

\* A step of the handler of an event of a handled category that meets no
\* storage failure.
DeliveryStep(r) ==
    /\ req[r].kind = "terraWebhook"
    /\ req'[r] # req[r]
    /\ ~HasEv(req'[r], "fault")

\* C27: no deduplication: every delivery of an event of a handled category
\* whose external id is bound to a user goes on to persist, and its persist
\* step adds exactly one record to those stored, whatever they are.
C27_EachDeliveryPersistsOne ==
    [][\A r \in Slots :
          DeliveryStep(r) =>
              /\ req[r].pc = "hookGet" /\ BoundUsers(tokens, req[r].arg) # {} =>
                    req'[r].pc = "hookPersist"
              /\ req[r].pc = "hookPersist" =>
                    /\ Len(records') = Len(records) + 1
                    /\ SubSeq(records', 1, Len(records)) = records]_vars

----------------------------------------------------------------------------
(* Lifecycle of a Credential *)

\* The keys of the stored Credentials.
Keys(T) == { <<T[i].userId, T[i].provider>> : i \in 1..Len(T) }

\* The step in which an authorization of request r is answered as successful.
AuthorizationSucceeds(r) ==
    /\ req[r].kind \in {"whoopAuthorize", "appleCallback"}
    /\ req[r].pc = "authWrite" /\ req'[r].pc = "done"
    /\ Has(req'[r], "stored", AuthProvider(req[r]))

\* The step in which the delete of a disconnect is answered as done.
DisconnectSucceeds(r) ==
    /\ req[r].kind = "disconnect"
    /\ req[r].pc = "delete" /\ req'[r].pc = "done"
    /\ req'[r].status = 200

\* C28: a key enters the stored Credentials only in the step of a successful
\* authorization for it, and leaves them only in the step of a disconnect
\* for it; no step of a sync or of a webhook adds or removes a Credential,
\* and a sync's update for a key that is no longer stored leaves it absent.
C28_CredentialLifecycle ==
    [][/\ \A k \in Keys(tokens') \ Keys(tokens) :
            \E r \in Slots :
                AuthorizationSucceeds(r) /\ k = <<req[r].userId, AuthProvider(req[r])>>
       /\ \A k \in Keys(tokens) \ Keys(tokens') :
            \E r \in Slots :
                DisconnectSucceeds(r) /\ k = <<req[r].userId, req[r].arg>>
       /\ \A r \in Slots :
            /\ req[r].kind \in {"sync", "terraWebhook", "whoopWebhook"}
            /\ req'[r] # req[r]
            => /\ Len(tokens') = Len(tokens)
               /\ Keys(tokens') = Keys(tokens)
               /\ UpdateStep(r) /\ ~Stored(tokens, req[r].userId, "whoop") =>
                     ~Stored(tokens', req[r].userId, "whoop")]_vars

\* A sync that had loaded the tracker's Credential has issued an update for
\* it after a disconnect removed it, and the Credential is not stored.
C28_UpdatedAfterDisconnect ==
    \E r \in Slots :
        /\ req[r].kind = "sync" /\ Found(req[r], "whoop")
        /\ HasEv(req[r], "updated")
        /\ ~Stored(tokens, req[r].userId, "whoop")

----------------------------------------------------------------------------
(* Records and outcomes of one sync *)

\* The number of records request q has persisted for the provider.
PersistedFor(q, provider) ==
    LET kinds == IF provider = "whoop" THEN {"real", "simulated"} ELSE {"apple_health"}
    IN  Cardinality({ i \in 1..Len(q.log) :
                        q.log[i].ev = "persisted" /\ q.log[i].arg \in kinds })

\* C29: a sync that reports an error outcome for a provider has persisted
\* no record for that provider, and a sync that has answered and has
\* persisted a record for a provider reports a success outcome for it.
C29_NoRecordWithErrorOutcome ==
    \A r \in Slots : \A provider \in Providers :
        LET q   == req[r]
            out == Outcomes(q, provider)
        IN
        q.kind = "sync" =>
            /\ (\E i \in 1..Len(out) : out[i].status = "error") =>
                  PersistedFor(q, provider) = 0
            /\ q.pc = "done" /\ q.status = 200 /\ PersistedFor(q, provider) > 0 =>
                  \E i \in 1..Len(out) : out[i].status = "success"

\* The success outcomes request q reports for the provider.
Successes(q, provider) ==
    SelectSeq(Outcomes(q, provider), LAMBDA o : o.status = "success")

\* C30: a sync persists at most one record per provider, never both a real
\* and a simulated record of the tracker, and reports at most one success
\* outcome per provider, each for exactly one record it has persisted; the
\* records it is counted to have persisted are those its steps have stored.
C30_OneRecordPerProvider ==
    [][\A r \in Slots :
          LET q == req'[r] IN
          q.kind = "sync" =>
              /\ \A provider \in Providers :
                    /\ PersistedFor(q, provider) <= 1
                    /\ Len(Successes(q, provider)) <= 1
                    /\ Len(Successes(q, provider)) = 1 => PersistedFor(q, provider) = 1
              /\ ~(Has(q, "persisted", "real") /\ Has(q, "persisted", "simulated"))
              /\ q # req[r] =>
                    Len(records') - Len(records) =
                        (PersistedFor(q, "whoop") + PersistedFor(q, "apple_health"))
                      - (PersistedFor(req[r], "whoop") + PersistedFor(req[r], "apple_health"))]_vars

\* The write of the real record failed, and the sync ended with the
\* simulated record alone and its success outcome.
C30_RealWriteFailed ==
    \E r \in Slots :
        LET q == req[r] IN
        /\ SyncDone(q)
        /\ HasEv(q, "fetched") /\ Faulted(q, "createWearableData")
        /\ Has(q, "persisted", "simulated")
        /\ Len(Successes(q, "whoop")) = 1
        /\ PersistedFor(q, "whoop") = 1

----------------------------------------------------------------------------
(* Sync and disconnect *)

\* The provider whose record a sync at this await is persisting.
PersistingFor(q) == IF q.pc = "persistApple" THEN "apple_health" ELSE "whoop"

\* The step in which sync r stores a record.
SyncStores(r) ==
    /\ req[r].kind = "sync"
    /\ req[r].pc \in {"persistReal", "persistDemo", "persistApple"}
    /\ records' # records

\* C31: a sync stores a record for a provider only while the user's
\* Credential for that provider is stored: after a disconnect has removed
\* it, and until an authorization stores it again, no sync of the user
\* persists a record for the provider, a sync that had loaded the
\* Credential before the disconnect included.
C31_NoRecordAfterDisconnect ==
    [][\A r \in Slots :
          SyncStores(r) => Stored(tokens, req[r].userId, PersistingFor(req[r]))]_vars

----------------------------------------------------------------------------
(* Routes of the tracker's authorization *)

\* C32: the requests GET /api/auth/whoop/demo and GET /api/auth/whoop/callback
\* are dispatched to their own handlers, not to that of
\* /api/auth/whoop/:userId, and once the demo request of a valid user U has
\* been answered a Credential (U, whoop) is stored.
C32_DemoAndCallbackOwnHandlers ==
    \A r \in Slots :
        LET q == req[r] IN
        q.pc = "done" /\ q.kind \in {"whoopAuthorize", "whoopDemo", "whoopCallback"} =>
            /\ q.arg = "callback" => q.kind = "whoopCallback"
            /\ q.arg = "demo" =>
                  /\ q.kind = "whoopDemo"
                  /\ ValidUser(q.data.userId) =>
                        Stored(tokens, ParseInt(q.data.userId).val, "whoop")

----------------------------------------------------------------------------
(* The time of the last sync *)

\* C33: once a sync has answered with a success outcome for the tracker,
\* the updatedAt of the user's stored tracker Credential is not earlier
\* than the arrival of that sync, the record being real or simulated.
C33_SyncedCredentialTouched ==
    \A r \in Slots :
        LET q == req[r] IN
        SyncDone(q) /\ Successes(q, "whoop") # <<>> =>
            \A i \in 1..Len(tokens) :
                KeyMatches(tokens[i], q.userId, "whoop") =>
                    tokens[i].updatedAt >= q.since

====
